---- MODULE Spec2Model ----
(***************************************************************************)
(* django-csp-reports: the report parser (CSPReport.from_message and       *)
(* CSPReport.full_clean, cspreports/models.py), the report formatter, the  *)
(* configuration resolver and the dispatch pipeline (cspreports/utils.py). *)
(*                                                                         *)
(* Text is modelled by TLA+ strings.  A JSON value is a record             *)
(*   [t, s, n]  with t the JSON type, s the text of a string, n the value  *)
(* of a number (or 0/1 for false/true).  A Python value held by a model    *)
(* field has the same shape with t in {"none", "str", "int"}.              *)
(***************************************************************************)
EXTENDS Integers, Sequences, FiniteSets, TLC

VARIABLES
    settings,              \* django.conf.settings: CSP_REPORTS_<name> -> override
    additional_handlers,   \* utils._additional_handlers (the memoised handler list)
    effects,               \* what the sinks have done so far, in order
    last,                  \* the outcome of the latest process_report call
    input,                 \* argument of the latest from_message / format_report call
    result                 \* what that call returned or raised

vars == <<settings, additional_handlers, effects, last, input, result>>

----------------------------------------------------------------------------
(* Bounds of the model *)

\* Fields of the base report that a generated report may differ in.
MaxEdits == 2
\* Length of the generated texts that are not JSON.
MaxLen == 3

----------------------------------------------------------------------------
(* Text helpers *)

CharAt(s, i) == SubSeq(s, i, i)

StartsWith(s, p) == Len(s) >= Len(p) /\ SubSeq(s, 1, Len(p)) = p

EndsWith(s, p) == Len(s) >= Len(p) /\ SubSeq(s, Len(s) - Len(p) + 1, Len(s)) = p

Digits == <<"0", "1", "2", "3", "4", "5", "6", "7", "8", "9">>

IsDigit(c) == \E d \in 1..10 : Digits[d] = c

DigitVal(c) == (CHOOSE d \in 1..10 : Digits[d] = c) - 1

\* str(n) of a Python int
RECURSIVE StrNat(_)
StrNat(n) == IF n < 10 THEN Digits[n + 1] ELSE StrNat(n \div 10) \o Digits[(n % 10) + 1]

StrInt(n) == IF n < 0 THEN "-" \o StrNat(0 - n) ELSE StrNat(n)

AllDigits(s) == Len(s) > 0 /\ \A i \in 1..Len(s) : IsDigit(CharAt(s, i))

RECURSIVE NatOf(_)
NatOf(s) == IF Len(s) = 0 THEN 0
            ELSE 10 * NatOf(SubSeq(s, 1, Len(s) - 1)) + DigitVal(CharAt(s, Len(s)))

RECURSIVE Strip(_)
Strip(s) == IF Len(s) > 0 /\ CharAt(s, 1) = " " THEN Strip(SubSeq(s, 2, Len(s)))
            ELSE IF Len(s) > 0 /\ CharAt(s, Len(s)) = " " THEN Strip(SubSeq(s, 1, Len(s) - 1))
            ELSE s

\* int(s) of a Python str: surrounding blanks, an optional sign, decimal digits.
IntText(s) ==
    LET b == Strip(s)
        signed == Len(b) > 0 /\ CharAt(b, 1) \in {"-", "+"}
        d == IF signed THEN SubSeq(b, 2, Len(b)) ELSE b
    IN  [ok |-> AllDigits(d),
         n  |-> IF ~AllDigits(d) THEN 0
                ELSE IF signed /\ CharAt(b, 1) = "-" THEN 0 - NatOf(d) ELSE NatOf(d)]

\* str.replace("-", "_")
RECURSIVE ReplaceDash(_)
ReplaceDash(s) ==
    IF Len(s) = 0 THEN ""
    ELSE (IF CharAt(s, 1) = "-" THEN "_" ELSE CharAt(s, 1)) \o ReplaceDash(SubSeq(s, 2, Len(s)))

RECURSIVE Join(_, _)
Join(parts, sep) ==
    IF Len(parts) = 0 THEN ""
    ELSE IF Len(parts) = 1 THEN parts[1]
    ELSE parts[1] \o sep \o Join(Tail(parts), sep)

Range(f) == {f[i] : i \in DOMAIN f}

IsPrefix(p, q) == Len(p) <= Len(q) /\ SubSeq(q, 1, Len(p)) = p

----------------------------------------------------------------------------
(* JSON values and Python values *)

JMissing == [t |-> "missing", s |-> "", n |-> 0]    \* the key is absent
JNull    == [t |-> "null", s |-> "", n |-> 0]
JStr(s)  == [t |-> "str", s |-> s, n |-> 0]
JInt(n)  == [t |-> "int", s |-> "", n |-> n]
JTrue    == [t |-> "bool", s |-> "", n |-> 1]
JList    == [t |-> "list", s |-> "", n |-> 0]       \* the empty array []

PyNone   == [t |-> "none", s |-> "", n |-> 0]
PyStr(s) == [t |-> "str", s |-> s, n |-> 0]
PyInt(n) == [t |-> "int", s |-> "", n |-> n]

\* dict.get(key): an absent key and a JSON null both give None.
Get(v) == IF v.t = "missing" THEN JNull ELSE v

----------------------------------------------------------------------------
(* cspreports/models.py: the report fields *)

DISPOSITIONS == {"enforce", "report"}

REQUIRED_FIELDS ==
    <<"document-uri", "referrer", "blocked-uri", "violated-directive", "original-policy">>

OPTIONAL_FIELDS ==
    <<"disposition", "effective-directive", "source-file", "status-code", "line-number",
      "column-number">>

Fields == Range(REQUIRED_FIELDS) \cup Range(OPTIONAL_FIELDS)

IntegerFields == {"status-code", "line-number", "column-number"}

\* json_field_name.replace("-", "_"), worked out once for each field
DjangoNameOf == [f \in Fields |-> ReplaceDash(f)]

DjangoName(json_field_name) == DjangoNameOf[json_field_name]

DjangoNames == {DjangoName(f) : f \in Fields}

\* TextField.to_python / CharField.to_python: None and str pass, anything else is str(value).
TextToPython(v) ==
    [ok |-> TRUE,
     val |-> CASE v.t = "null" -> PyNone
               [] v.t = "str"  -> PyStr(v.s)
               [] v.t = "int"  -> PyStr(StrInt(v.n))
               [] v.t = "bool" -> PyStr(IF v.n = 1 THEN "True" ELSE "False")
               [] OTHER        -> PyStr("[]")]

\* IntegerField.to_python: None passes, int(value), a TypeError or ValueError becomes
\* a ValidationError.
IntegerToPython(v) ==
    CASE v.t = "null" -> [ok |-> TRUE, val |-> PyNone]
      [] v.t = "int"  -> [ok |-> TRUE, val |-> PyInt(v.n)]
      [] v.t = "bool" -> [ok |-> TRUE, val |-> PyInt(v.n)]
      [] v.t = "str"  -> [ok |-> IntText(v.s).ok,
                          val |-> IF IntText(v.s).ok THEN PyInt(IntText(v.s).n) ELSE PyNone]
      [] OTHER        -> [ok |-> FALSE, val |-> PyNone]

\* cls._meta.get_field(django_field_name).to_python
to_python(json_field_name, v) ==
    IF json_field_name \in IntegerFields THEN IntegerToPython(v) ELSE TextToPython(v)

\* A bug CSPReport could have: is_valid defaulting to True.
CSPReport_valid_by_default(message) ==
    [json |-> message, is_valid |-> TRUE, user_agent |-> "",
     fields |-> [d \in DjangoNames |-> PyNone]]

\* A new CSPReport(json=message): every report field NULL, is_valid False.
CSPReport(message) ==
    [json |-> message, is_valid |-> FALSE, user_agent |-> "",
     fields |-> [d \in DjangoNames |-> PyNone]]

\* Model.full_clean for one field: a blank value of a blank=True field is skipped,
\* disposition must be one of its choices, the integer fields carry MinValueValidator(0).
FieldClean(json_field_name, val) ==
    \/ val.t = "none"
    \/ val.t = "str" /\ val.s = ""
    \/ CASE json_field_name = "disposition"    -> val.s \in DISPOSITIONS
         [] json_field_name \in IntegerFields  -> val.n >= 0
         [] OTHER                              -> TRUE

\* A bug full_clean could have: the call of super().full_clean() left out.
full_clean_required_only(rec) ==
    \A i \in DOMAIN REQUIRED_FIELDS : rec.fields[DjangoName(REQUIRED_FIELDS[i])].t # "none"

\* CSPReport.full_clean: TRUE when no ValidationError is raised.
full_clean(rec) ==
    /\ \A f \in Fields : FieldClean(f, rec.fields[DjangoName(f)])
    /\ \A i \in DOMAIN REQUIRED_FIELDS : rec.fields[DjangoName(REQUIRED_FIELDS[i])].t # "none"

----------------------------------------------------------------------------
(* Messages: a text together with what json.loads makes of it *)

\* message.top.t is "notjson" when json.loads raises ValueError, else the type of the
\* decoded value; for an object, src is its "source-file" member, csp its "csp-report"
\* member (csp.t = "obj" when that is an object) and rep the members of that object.
NoRep == [f \in Fields |-> JMissing]

JObj == [t |-> "obj", s |-> "", n |-> 0]

NotJsonTop == [t |-> "notjson", s |-> "", n |-> 0]

fields == REQUIRED_FIELDS \o OPTIONAL_FIELDS

\* Compact JSON text of a value, as a browser sends it.
ScalarText(v) ==
    CASE v.t = "null" -> "null"
      [] v.t = "str"  -> "\"" \o v.s \o "\""
      [] v.t = "int"  -> StrInt(v.n)
      [] v.t = "bool" -> (IF v.n = 1 THEN "true" ELSE "false")
      [] OTHER        -> "[]"

Present(rep, names) == SelectSeq(names, LAMBDA f : rep[f].t # "missing")

RepText(rep) ==
    LET ks == Present(rep, fields)
    IN  "{" \o Join([i \in 1..Len(ks) |-> "\"" \o ks[i] \o "\":" \o ScalarText(rep[ks[i]])], ",")
            \o "}"

ObjText(src, csp, rep) ==
    LET c == IF csp.t = "missing" THEN <<>>
             ELSE <<"\"csp-report\":" \o (IF csp.t = "obj" THEN RepText(rep) ELSE ScalarText(csp))>>
        s == IF src.t = "missing" THEN <<>> ELSE <<"\"source-file\":" \o ScalarText(src)>>
    IN  "{" \o Join(c \o s, ",") \o "}"

NotJson(text) == [text |-> text, top |-> NotJsonTop, src |-> JMissing, csp |-> JMissing,
                  rep |-> NoRep]

TopScalar(v) == [text |-> ScalarText(v), top |-> v, src |-> JMissing, csp |-> JMissing,
                 rep |-> NoRep]

TopObject(src, csp, rep) ==
    [text |-> ObjText(src, csp, rep), top |-> JObj, src |-> src, csp |-> csp,
     rep |-> IF csp.t = "obj" THEN rep ELSE NoRep]

Report(rep) == TopObject(JMissing, JObj, rep)

----------------------------------------------------------------------------
(* cspreports/models.py: CSPReport.from_message *)

Returned(rec) == [outcome |-> "returned", exc |-> "", rec |-> rec, out |-> ""]

Raised(exc) == [outcome |-> "raised", exc |-> exc, rec |-> CSPReport(""), out |-> ""]

Text(out) == [outcome |-> "returned", exc |-> "", rec |-> CSPReport(""), out |-> out]

NoResult == [outcome |-> "none", exc |-> "", rec |-> CSPReport(""), out |-> ""]

\* The loop over `fields`: a value the converter rejects leaves the field as it was.
RECURSIVE Populate(_, _, _)
Populate(self, report_data, i) ==
    IF i > Len(fields) THEN self
    ELSE LET json_field_name == fields[i]
             django_field_name == DjangoName(json_field_name)
             conv == to_python(json_field_name, Get(report_data[json_field_name]))
         IN  Populate(IF conv.ok
                      THEN [self EXCEPT !.fields[django_field_name] = conv.val]
                      ELSE self,
                      report_data, i + 1)

\* A bug from_message could have: an invalid report returned without its fields.
from_message_all_or_nothing(message) ==
    LET self == CSPReport(message.text)
    IN  IF message.top.t = "notjson" THEN Returned(self)
        ELSE IF message.top.t # "obj" THEN Raised("TypeError")
        ELSE IF message.csp.t = "missing" THEN Returned(self)
        ELSE IF message.csp.t # "obj" THEN Raised("AttributeError")
        ELSE LET filled == Populate(self, message.rep, 1)
             IN  Returned(IF full_clean(filled) THEN [filled EXCEPT !.is_valid = TRUE]
                          ELSE self)

\* The two lookups before the loop: decoded_data['csp-report'] catches KeyError only,
\* report_data.get is not guarded.
from_message(message) ==
    LET self == CSPReport(message.text)
    IN  IF message.top.t = "notjson" THEN Returned(self)
        ELSE IF message.top.t # "obj" THEN Raised("TypeError")
        ELSE IF message.csp.t = "missing" THEN Returned(self)
        ELSE IF message.csp.t # "obj" THEN Raised("AttributeError")
        ELSE LET filled == Populate(self, message.rep, 1)
             IN  Returned([filled EXCEPT !.is_valid = full_clean(filled)])

----------------------------------------------------------------------------
(* The inputs the functions are exercised on *)

Alphabet == {"{", "x", "1"}

RECURSIVE Texts(_)
Texts(n) == IF n = 0 THEN {""}
            ELSE Texts(n - 1) \cup {s \o c : s \in Texts(n - 1), c \in Alphabet}

\* Over this alphabet a text is JSON exactly when it is a number.
NotJsonTexts == {s \in Texts(MaxLen) : ~AllDigits(s)}

NumberTexts == {s \in Texts(MaxLen) : AllDigits(s)}

\* A CSP 3.0 report with every field, and a CSP 1.0 report with the required ones.
FullRep ==
    [f \in Fields |->
        CASE f = "document-uri"        -> JStr("http://a/")
          [] f = "referrer"            -> JStr("")
          [] f = "blocked-uri"         -> JStr("http://b/x.js")
          [] f = "violated-directive"  -> JStr("script-src")
          [] f = "original-policy"     -> JStr("script-src 'self'")
          [] f = "disposition"         -> JStr("enforce")
          [] f = "effective-directive" -> JStr("script-src")
          [] f = "source-file"         -> JStr("http://a/p.js")
          [] f = "status-code"         -> JInt(200)
          [] f = "line-number"         -> JInt(12)
          [] OTHER                     -> JInt(0)]

Csp1Rep == [f \in Fields |-> IF f \in Range(REQUIRED_FIELDS) THEN FullRep[f] ELSE JMissing]

\* What a field of a generated report may hold instead.
EditValues(f) ==
    CASE f \in Range(REQUIRED_FIELDS) -> {JMissing, JNull, JInt(7), JStr("")}
      [] f = "disposition"            -> {JMissing, JNull, JStr("report"), JStr("bogus"),
                                          JStr(""), JInt(7)}
      [] f = "effective-directive"    -> {JMissing, JList}
      [] f = "source-file"            -> {JMissing, JStr("moz-extension://abc")}
      [] OTHER                        -> {JMissing, JNull, JInt(0 - 1), JStr("404"),
                                          JStr(" -3"), JStr("abc"), JTrue, JList}

\* One edit: a field and the value it gets.
Edits == UNION {{[f |-> f, v |-> v] : v \in EditValues(f)} : f \in Fields}

RECURSIVE Edited(_, _)
Edited(base, k) ==
    IF k = 0 THEN {base}
    ELSE LET prev == Edited(base, k - 1)
         IN  prev \cup {[r EXCEPT ![e.f] = e.v] : r \in prev, e \in Edits}

Reps == Edited(FullRep, MaxEdits) \cup Edited(Csp1Rep, MaxEdits)

TopSources == {JMissing, JStr("moz-extension://abc"), JStr("http://a/p.js"), JInt(7), JNull}

OtherMessages ==
    {TopScalar(JNull), TopScalar(JStr("x")), TopScalar(JList), TopScalar(JTrue)}
        \cup {TopScalar(JInt(NatOf(s))) : s \in NumberTexts}
        \cup {TopObject(src, csp, NoRep) :
                 src \in TopSources, csp \in {JMissing, JNull, JStr("x"), JInt(7), JList}}
        \cup {TopObject(src, JObj, rep) :
                 src \in TopSources \ {JMissing},
                 rep \in {FullRep, [FullRep EXCEPT !["source-file"] = JStr("moz-extension://abc")]}}

Messages == {NotJson(s) : s \in NotJsonTexts} \cup OtherMessages \cup {Report(rep) : rep \in Reps}

----------------------------------------------------------------------------
(* cspreports/utils.py: format_report *)

Sentinel == "Invalid JSON. Raw dump is below."

SortedFields ==
    <<"blocked-uri", "column-number", "disposition", "document-uri", "effective-directive",
      "line-number", "original-policy", "referrer", "source-file", "status-code",
      "violated-directive">>

Indents == [level \in 0..2 |-> Join([i \in 1..level |-> "    "], "")]

Indent(level) == Indents[level]

\* json.dumps(value, indent=4, sort_keys=True, separators=(',', ': '))
DumpsMembers(members, level) ==
    IF Len(members) = 0 THEN "{}"
    ELSE "{\n" \o Join([i \in 1..Len(members) |-> Indent(level + 1) \o members[i]], ",\n")
         \o "\n" \o Indent(level) \o "}"

DumpsRep(rep, level) ==
    LET ks == Present(rep, SortedFields)
    IN  DumpsMembers([i \in 1..Len(ks) |-> "\"" \o ks[i] \o "\": " \o ScalarText(rep[ks[i]])],
                     level)

Dumps(message) ==
    IF message.top.t # "obj" THEN ScalarText(message.top)
    ELSE LET c == IF message.csp.t = "missing" THEN <<>>
                  ELSE <<"\"csp-report\": " \o (IF message.csp.t = "obj"
                                                THEN DumpsRep(message.rep, 1)
                                                ELSE ScalarText(message.csp))>>
             s == IF message.src.t = "missing" THEN <<>>
                  ELSE <<"\"source-file\": " \o ScalarText(message.src)>>
         IN  DumpsMembers(c \o s, 0)

\* jsn is [bytes, utf8, msg]: text, or bytes that may not be valid UTF-8.  The decode
\* of line 39 is outside the try.
format_report(jsn) ==
    IF jsn.bytes /\ ~jsn.utf8 THEN Raised("UnicodeDecodeError")
    ELSE IF jsn.msg.top.t = "notjson" THEN Text(Sentinel \o "\n\n" \o jsn.msg.text)
    ELSE Text(Dumps(jsn.msg))

----------------------------------------------------------------------------
(* The inputs the functions are exercised on, continued *)

\* Arguments of format_report: a text, or bytes that decode to it, or bytes that do not
\* decode (their text stands for the undecodable bytes).
FnInputs ==
    {[bytes |-> FALSE, utf8 |-> TRUE, msg |-> m] : m \in Messages}
        \cup {[bytes |-> TRUE, utf8 |-> TRUE, msg |-> m] : m \in Messages}
        \cup {[bytes |-> TRUE, utf8 |-> FALSE, msg |-> NotJson(s)] : s \in NotJsonTexts}

NoInput == [bytes |-> FALSE, utf8 |-> TRUE, msg |-> NotJson("")]

----------------------------------------------------------------------------
(* Specification of the two functions: one call on one input *)

NoCall == [fn |-> "", res |-> NoResult]

call_from_message ==
    /\ result.fn = ""
    /\ ~input.bytes
    /\ result' = [fn |-> "from_message", res |-> from_message(input.msg)]
    /\ UNCHANGED <<settings, additional_handlers, effects, last, input>>

call_format_report ==
    /\ result.fn = ""
    /\ result' = [fn |-> "format_report", res |-> format_report(input)]
    /\ UNCHANGED <<settings, additional_handlers, effects, last, input>>

----------------------------------------------------------------------------
(* cspreports/utils.py: Config *)

OptionNames ==
    {"EMAIL_ADMINS", "LOG", "LOG_LEVEL", "SAVE", "ADDITIONAL_HANDLERS",
     "IGNORE_BROWSER_EXTENSIONS"}

Absent  == [t |-> "absent", b |-> FALSE, s |-> "", l |-> <<>>]
Bool(b) == [t |-> "bool", b |-> b, s |-> "", l |-> <<>>]
Str(s)  == [t |-> "str", b |-> FALSE, s |-> s, l |-> <<>>]
List(l) == [t |-> "list", b |-> FALSE, s |-> "", l |-> l]

\* The class attributes of Config.
Defaults(name) ==
    CASE name = "EMAIL_ADMINS"              -> Bool(TRUE)
      [] name = "LOG"                       -> Bool(TRUE)
      [] name = "LOG_LEVEL"                 -> Str("warning")
      [] name = "SAVE"                      -> Bool(TRUE)
      [] name = "ADDITIONAL_HANDLERS"       -> List(<<>>)
      [] OTHER                              -> Bool(FALSE)

\* A bug Config could have: the options read once, when the module is imported.
config_at_import(name) == Defaults(name)

\* Config.__getattribute__: getattr(settings, "CSP_REPORTS_" + name), and the class
\* attribute on AttributeError.
config(name) == IF settings[name].t # "absent" THEN settings[name] ELSE Defaults(name)

\* Python truth value of an option
Truthy(v) == CASE v.t = "bool" -> v.b
               [] v.t = "str"  -> v.s # ""
               [] v.t = "list" -> Len(v.l) > 0
               [] OTHER        -> FALSE

----------------------------------------------------------------------------
(* cspreports/utils.py: get_additional_handlers *)

\* The modules that can be imported, and the functions they define.
Modules == {"app"}

ModuleFunctions(module_name) == {"h1", "h2"}

RECURSIVE LastDot(_, _)
LastDot(name, i) == IF i = 0 THEN 0 ELSE IF CharAt(name, i) = "." THEN i ELSE LastDot(name, i - 1)

\* name.rsplit('.', 1), import_module and getattr for one dotted path
ResolveHandler(name) ==
    LET dot == LastDot(name, Len(name))
        module_name == SubSeq(name, 1, dot - 1)
        function_name == SubSeq(name, dot + 1, Len(name))
    IN  IF dot = 0 THEN [ok |-> FALSE, exc |-> "ValueError", fn |-> ""]
        ELSE IF module_name \notin Modules
             THEN [ok |-> FALSE, exc |-> "ImportError", fn |-> ""]
        ELSE IF function_name \notin ModuleFunctions(module_name)
             THEN [ok |-> FALSE, exc |-> "AttributeError", fn |-> ""]
        ELSE [ok |-> TRUE, exc |-> "", fn |-> function_name]

Unresolved == [resolved |-> FALSE, handlers |-> <<>>]

\* A bug get_additional_handlers could have: no memo, the option resolved on every call.
get_additional_handlers_every_time(cache) ==
    LET names == config("ADDITIONAL_HANDLERS").l
        bad == {i \in DOMAIN names : ~ResolveHandler(names[i]).ok}
    IN  IF bad # {}
        THEN [raised |-> TRUE,
              exc |-> ResolveHandler(names[CHOOSE i \in bad : \A j \in bad : i <= j]).exc,
              cache |-> cache]
        ELSE [raised |-> FALSE, exc |-> "",
              cache |-> [resolved |-> TRUE,
                         handlers |-> [i \in DOMAIN names |-> ResolveHandler(names[i]).fn]]]

\* [raised, exc, cache]: the memo is written once the whole option is resolved, and
\* never again while it holds a list.
get_additional_handlers(cache) ==
    IF cache.resolved THEN [raised |-> FALSE, exc |-> "", cache |-> cache]
    ELSE LET names == config("ADDITIONAL_HANDLERS").l
             bad == {i \in DOMAIN names : ~ResolveHandler(names[i]).ok}
         IN  IF bad # {}
             THEN [raised |-> TRUE,
                   exc |-> ResolveHandler(names[CHOOSE i \in bad : \A j \in bad : i <= j]).exc,
                   cache |-> cache]
             ELSE [raised |-> FALSE, exc |-> "",
                   cache |-> [resolved |-> TRUE,
                              handlers |-> [i \in DOMAIN names |-> ResolveHandler(names[i]).fn]]]

----------------------------------------------------------------------------
(* cspreports/utils.py: the dispatch pipeline *)

\* One thing a sink did.  text: the mail body or the log message; rec: the saved record.
Effect(sink, request, text, level, rec, handler) ==
    [sink |-> sink, req |-> request, text |-> text, level |-> level, rec |-> rec,
     handler |-> handler]

\* A call in progress: the steps it has entered, what the sinks have done, the handler
\* memo, whether the report was ignored, and the exception that ended the call.
Running(cache) ==
    [steps |-> <<>>, eff |-> <<>>, cache |-> cache, ignored |-> FALSE, raised |-> FALSE,
     exc |-> ""]

Enter(c, step) == [c EXCEPT !.steps = Append(c.steps, step)]

Raise(c, exc) == [c EXCEPT !.raised = TRUE, !.exc = exc]

Did(c, e) == [c EXCEPT !.eff = Append(c.eff, e)]

AsBytes(request) == [bytes |-> TRUE, utf8 |-> request.body.utf8, msg |-> request.body.msg]

\* [raised, exc, ignore]
should_ignore_report(request) ==
    LET report == request.body.msg
        no(exc) == [raised |-> TRUE, exc |-> exc, ignore |-> FALSE]
        yes(b) == [raised |-> FALSE, exc |-> "", ignore |-> b]
    IN  IF ~Truthy(config("IGNORE_BROWSER_EXTENSIONS")) THEN yes(FALSE)
        ELSE IF ~request.body.utf8 THEN no("UnicodeDecodeError")
        ELSE IF report.top.t = "notjson" THEN no("ValueError")
        ELSE IF report.top.t # "obj" THEN no("AttributeError")
        ELSE IF report.src.t = "missing" THEN yes(FALSE)
        ELSE IF report.src.t # "str" THEN no("AttributeError")
        ELSE yes(StartsWith(report.src.s, "moz-extension://"))

email_admins(c, request, fail) ==
    LET report == format_report(AsBytes(request))
        message == "User agent:\n" \o request.ua \o "\n\nReport:\n" \o report.out
    IN  IF report.outcome = "raised" THEN Raise(c, report.exc)
        ELSE IF fail = "email" THEN Raise(c, "SMTPException")
        ELSE Did(c, Effect("email", request, message, "", CSPReport(""), ""))

LoggerMethods == {"debug", "info", "warning", "error", "critical"}

log_report(c, request, fail) ==
    LET level == config("LOG_LEVEL").s
        report == format_report(AsBytes(request))
    IN  IF level \notin LoggerMethods THEN Raise(c, "AttributeError")
        ELSE IF report.outcome = "raised" THEN Raise(c, report.exc)
        ELSE IF fail = "log" THEN Raise(c, "OSError")
        ELSE Did(c, Effect("log", request, "Content Security Policy violation: " \o report.out,
                           level, CSPReport(""), ""))

save_report(c, request, fail) ==
    LET report == from_message(request.body.msg)
    IN  IF ~request.body.utf8 THEN Raise(c, "UnicodeDecodeError")
        ELSE IF report.outcome = "raised" THEN Raise(c, report.exc)
        ELSE IF fail = "save" THEN Raise(c, "DatabaseError")
        ELSE Did(c, Effect("save", request, "", "",
                           [report.rec EXCEPT !.user_agent = request.ua], ""))

\* for handler in handlers[i..]: handler(request)
RECURSIVE CallHandlers(_, _, _, _, _)
CallHandlers(c, handlers, i, request, fail) ==
    IF i > Len(handlers) THEN c
    ELSE LET called == Did(c, Effect("handler", request, "", "", CSPReport(""), handlers[i]))
         IN  IF fail = handlers[i] THEN Raise(called, "HandlerError")
             ELSE CallHandlers(called, handlers, i + 1, request, fail)

run_additional_handlers(c, request, fail) ==
    LET got == get_additional_handlers(c.cache)
    IN  IF got.raised THEN Raise(c, got.exc)
        ELSE CallHandlers([c EXCEPT !.cache = got.cache], got.cache.handlers, 1, request, fail)

\* A bug Reached could have: the exception of an earlier sink swallowed.
ReachedAfterFailure(c, option) == Truthy(option)

\* `if config.X:` is reached only when nothing before it raised.
Reached(c, option) == ~c.raised /\ Truthy(option)

\* In the steps below `at` is the call so far, worked out once.
EmailStep(c, request, fail) ==
    LET at == c
    IN  IF Reached(at, config("EMAIL_ADMINS"))
        THEN email_admins(Enter(at, "email"), request, fail)
        ELSE at

LogStep(c, request, fail) ==
    LET at == c
    IN  IF Reached(at, config("LOG")) THEN log_report(Enter(at, "log"), request, fail) ELSE at

SaveStep(c, request, fail) ==
    LET at == c
    IN  IF Reached(at, config("SAVE")) THEN save_report(Enter(at, "save"), request, fail)
        ELSE at

HandlersStep(c, request, fail) ==
    LET at == c
    IN  IF Reached(at, config("ADDITIONAL_HANDLERS"))
        THEN run_additional_handlers(Enter(at, "handlers"), request, fail)
        ELSE at

IgnoreStep(c, ign) ==
    IF ign.raised THEN Raise(c, ign.exc) ELSE [c EXCEPT !.ignored = ign.ignore]

AfterIgnoreStep(c, request, fail) ==
    LET at == c
    IN  IF at.raised \/ at.ignored THEN at
        ELSE HandlersStep(SaveStep(LogStep(EmailStep(at, request, fail), request, fail),
                                   request, fail),
                          request, fail)

\* process_report(request); `fail` names the backend or handler that raises when used.
process_report(cache, request, fail) ==
    AfterIgnoreStep(IgnoreStep(Enter(Running(cache), "ignore"), should_ignore_report(request)),
                    request, fail)

----------------------------------------------------------------------------
(* Specification of the pipeline: reports arrive while the settings change *)

MozFile == JStr("moz-extension://abc")

Body(m) == [utf8 |-> TRUE, msg |-> m]

Request(body, ua) == [body |-> body, ua |-> ua]

Requests ==
    {Request(Body(Report(FullRep)), "Mozilla/5.0"),
     Request(Body(Report([FullRep EXCEPT !["source-file"] = MozFile])), "Mozilla/5.0"),
     Request(Body(TopObject(MozFile, JObj, FullRep)), "Mozilla/5.0"),
     Request(Body(TopObject(JInt(7), JObj, FullRep)), "Mozilla/5.0"),
     Request(Body(Report([FullRep EXCEPT !["referrer"] = JMissing])), "Mozilla/5.0"),
     Request(Body(TopObject(JMissing, JMissing, NoRep)), ""),
     Request(Body(TopObject(JMissing, JStr("x"), NoRep)), "Mozilla/5.0"),
     Request(Body(TopScalar(JList)), "Mozilla/5.0"),
     Request(Body(NotJson("{")), "Mozilla/5.0"),
     Request([utf8 |-> FALSE, msg |-> NotJson("{x")], "Mozilla/5.0")}

\* The backend or handler that fails during a call, if any.
Failures == {"none", "email", "log", "save", "h1"}

Overrides(name) ==
    CASE name = "LOG_LEVEL"           -> {Str("error")}
      [] name = "ADDITIONAL_HANDLERS" -> {List(<<>>), List(<<"app.h1", "app.h2">>),
                                          List(<<"app.h2">>), List(<<"nodot">>)}
      [] OTHER                        -> {Bool(TRUE), Bool(FALSE)}

\* The latest event: a process_report call (its request, the steps it entered, whether
\* the report was ignored, how it ended), or a read of one option (its name and value).
NoLast ==
    [req |-> Request(Body(NotJson("")), ""), outcome |-> "none", exc |-> "", steps |-> <<>>,
     ignored |-> FALSE, name |-> "", value |-> Absent]

Init ==
    /\ settings = [name \in OptionNames |-> Absent]
    /\ additional_handlers = Unresolved
    /\ effects = <<>>
    /\ last = NoLast
    /\ input = NoInput
    /\ result = NoCall

\* A report arrives: the whole of process_report, with what it leaves behind.
call_process_report ==
    /\ last.outcome = "none"
    /\ \E request \in Requests, fail \in Failures :
        \E c \in {process_report(additional_handlers, request, fail)} :
            /\ additional_handlers' = c.cache
            /\ effects' = c.eff
            /\ last' = [NoLast EXCEPT !.req = request,
                                      !.outcome = IF c.raised THEN "raised" ELSE "returned",
                                      !.exc = c.exc,
                                      !.steps = c.steps,
                                      !.ignored = c.ignored]
            /\ UNCHANGED <<settings, input, result>>

\* config.<name> is read.
read_config ==
    \E name \in OptionNames :
        /\ last.outcome = "none"
        /\ last' = [NoLast EXCEPT !.outcome = "read", !.name = name, !.value = config(name)]
        /\ UNCHANGED <<settings, additional_handlers, effects, input, result>>

\* The caller of process_report is answered: the pipeline is idle until the next report.
respond ==
    /\ last.outcome # "none"
    /\ effects' = <<>>
    /\ last' = NoLast
    /\ UNCHANGED <<settings, additional_handlers, input, result>>

\* django.conf.settings gains, changes or loses a CSP_REPORTS_ override.
override_setting ==
    \E name \in OptionNames : \E value \in Overrides(name) :
        /\ last.outcome = "none"
        /\ settings[name] # value
        /\ settings' = [settings EXCEPT ![name] = value]
        /\ UNCHANGED <<additional_handlers, effects, last, input, result>>

remove_setting ==
    \E name \in OptionNames :
        /\ last.outcome = "none"
        /\ settings[name] # Absent
        /\ settings' = [settings EXCEPT ![name] = Absent]
        /\ UNCHANGED <<additional_handlers, effects, last, input, result>>

Next == call_process_report \/ read_config \/ respond \/ override_setting \/ remove_setting

Spec == Init /\ [][Next]_vars

InitFn ==
    /\ settings = [name \in OptionNames |-> Absent]
    /\ additional_handlers = Unresolved
    /\ effects = <<>>
    /\ last = NoLast
    /\ input \in FnInputs
    /\ result = NoCall

NextFn == call_from_message \/ call_format_report

SpecFn == InitFn /\ [][NextFn]_vars

----------------------------------------------------------------------------
(* Properties of from_message and format_report, checked under SpecFn *)

Parsed == result.fn = "from_message"

Rec == result.res.rec

\* The argument decodes to a JSON object whose `csp-report` member is an object.
HasReport == input.msg.top.t = "obj" /\ input.msg.csp.t = "obj"

FieldOf(f) == Rec.fields[DjangoName(f)]

RequiredNonNull == \A i \in DOMAIN REQUIRED_FIELDS : FieldOf(REQUIRED_FIELDS[i]).t # "none"

\* The values the data model of the specification does not accept for an optional field:
\* a disposition outside enforce|report, a negative number for an integer field.
Unacceptable(f, v) ==
    \/ f = "disposition" /\ v.t = "str" /\ v.s # "" /\ v.s \notin {"enforce", "report"}
    \/ f \in {"status-code", "line-number", "column-number"} /\ v.t = "int" /\ v.n < 0

StoredOptionalsPass ==
    /\ FieldOf("disposition").t = "none" \/ FieldOf("disposition").s \in {"", "enforce", "report"}
    /\ \A f \in {"status-code", "line-number", "column-number"} :
           FieldOf(f).t = "none" \/ FieldOf(f).n >= 0

C2_NeverRaises == Parsed => result.res.outcome = "returned"

\* C5 as stated: for every input that is not JSON, bytes that are not UTF-8 included,
\* format_report returns the sentinel followed by the original text.
C5_SentinelThenRaw ==
    (result.fn = "format_report" /\ input.msg.top.t = "notjson") =>
        /\ result.res.outcome = "returned"
        /\ StartsWith(result.res.out, "Invalid JSON. Raw dump is below.")
        /\ EndsWith(result.res.out, input.msg.text)

SomeRequiredNull ==
    \E i \in DOMAIN REQUIRED_FIELDS : input.msg.rep[REQUIRED_FIELDS[i]].t \in {"missing", "null"}

NoReportAtAll ==
    \/ input.msg.top.t = "notjson"
    \/ input.msg.top.t = "obj" /\ input.msg.csp.t = "missing"

\* C8: a message that is not JSON, or a JSON object without `csp-report`, gives a record
\* with is_valid false, the eleven report fields null and json the message itself.
C8_InvalidKeepsRaw ==
    (Parsed /\ NoReportAtAll) =>
        /\ result.res.outcome = "returned"
        /\ ~Rec.is_valid
        /\ \A d \in DjangoNames : Rec.fields[d] = PyNone
        /\ Cardinality(DjangoNames) = 11
        /\ Rec.json = input.msg.text

\* C8 witness: an object without `csp-report`, with other members, has been parsed.
C8_Witness ==
    /\ Parsed
    /\ input.msg.top.t = "obj" /\ input.msg.csp.t = "missing" /\ input.msg.src.t = "str"
    /\ result.res.outcome = "returned"
    /\ Len(Rec.json) > 2

----------------------------------------------------------------------------
(* Properties of the pipeline and of Config, checked under Spec *)

\* A process_report call has just ended.
Called == last.outcome \in {"returned", "raised"}

\* The options as the settings store and the documented defaults give them.
EmailOn == settings["EMAIL_ADMINS"] \in {Absent, Bool(TRUE)}

LogOn == settings["LOG"] \in {Absent, Bool(TRUE)}

SaveOn == settings["SAVE"] \in {Absent, Bool(TRUE)}

IgnoreOn == settings["IGNORE_BROWSER_EXTENSIONS"] = Bool(TRUE)

HandlersOn == Len(settings["ADDITIONAL_HANDLERS"].l) > 0

SinkOn(step) ==
    CASE step = "email" -> EmailOn
      [] step = "log"   -> LogOn
      [] step = "save"  -> SaveOn
      [] OTHER          -> HandlersOn

StepOrder == <<"ignore", "email", "log", "save", "handlers">>

Pos(step) == CHOOSE i \in DOMAIN StepOrder : StepOrder[i] = step

SinkPos(sink) == IF sink = "handler" THEN Pos("handlers") ELSE Pos(sink)

Entered(step) == step \in Range(last.steps)

\* The step whose exception ended the call
RaisingStep == last.steps[Len(last.steps)]

RaisedBefore(step) == last.outcome = "raised" /\ Pos(RaisingStep) < Pos(step)

Count(sink) == Cardinality({i \in DOMAIN effects : effects[i].sink = sink})

\* The handlers invoked, in order
Invoked(eff) ==
    LET hs == SelectSeq(eff, LAMBDA e : e.sink = "handler")
    IN  [i \in DOMAIN hs |-> hs[i].handler]

\* C3 as stated: with IGNORE_BROWSER_EXTENSIONS enabled, a report whose source-file, as
\* the parser reads it, begins with moz-extension:// reaches no sink.
C3_ExtensionReportsIgnored ==
    (/\ Called
     /\ IgnoreOn
     /\ from_message(last.req.body.msg).outcome = "returned"
     /\ StartsWith(from_message(last.req.body.msg).rec.fields["source_file"].s,
                   "moz-extension://"))
        => (effects = <<>> /\ last.steps = <<"ignore">> /\ last.outcome = "returned")

\* The reports C4 is about: a body that is not JSON, JSON without `csp-report`, or a
\* report without one of the required fields.
Malformed(request) ==
    LET m == request.body.msg
    IN  \/ ~request.body.utf8
        \/ m.top.t = "notjson"
        \/ m.top.t # "obj"
        \/ m.csp.t = "missing"
        \/ m.csp.t = "obj" /\ \E i \in DOMAIN REQUIRED_FIELDS :
                                  m.rep[REQUIRED_FIELDS[i]].t \in {"missing", "null"}

BackendErrors == {"SMTPException", "OSError", "DatabaseError"}

\* C4 as stated: with SAVE enabled and working backends, a malformed or invalid report
\* is persisted with is_valid false, whatever the other options are.
C4_MalformedStillSaved ==
    (Called /\ SaveOn /\ Malformed(last.req) /\ last.exc \notin BackendErrors)
        => \E i \in DOMAIN effects : effects[i].sink = "save" /\ ~effects[i].rec.is_valid

\* C6: the steps of a call run in the order ignore check, email, log, save, custom
\* handlers, each at most once; a sink runs exactly when the report is not ignored, its
\* own option is on and no earlier step raised; the step that raises ends the call with
\* its exception, and every sink that ran before it has left its effect.
C6_FixedOrderFailFast ==
    Called =>
        /\ Len(last.steps) >= 1 /\ last.steps[1] = "ignore"
        /\ \A i, j \in DOMAIN last.steps : i < j => Pos(last.steps[i]) < Pos(last.steps[j])
        /\ \A step \in {"email", "log", "save", "handlers"} :
               Entered(step) <=> (~last.ignored /\ SinkOn(step) /\ ~RaisedBefore(step))
        /\ last.ignored => (last.outcome = "returned" /\ last.steps = <<"ignore">>)
        /\ (last.outcome = "raised") = (last.exc # "")
        /\ \A sink \in {"email", "log", "save"} :
               Count(sink) = IF Entered(sink) /\ ~(last.outcome = "raised" /\ RaisingStep = sink)
                             THEN 1 ELSE 0
        /\ Count("handler") > 0 => Entered("handlers")
        /\ \A i, j \in DOMAIN effects :
               i < j => SinkPos(effects[i].sink) <= SinkPos(effects[j].sink)
        /\ \A i \in DOMAIN effects : effects[i].req = last.req

\* C6 witness: storage failed after the mail was sent and the log written.
C6_Witness ==
    /\ last.outcome = "raised" /\ last.exc = "DatabaseError"
    /\ last.steps = <<"ignore", "email", "log", "save">>
    /\ HandlersOn
    /\ [i \in DOMAIN effects |-> effects[i].sink] = <<"email", "log">>

DocumentedDefault(name) ==
    CASE name = "EMAIL_ADMINS"              -> Bool(TRUE)
      [] name = "LOG"                       -> Bool(TRUE)
      [] name = "LOG_LEVEL"                 -> Str("warning")
      [] name = "SAVE"                      -> Bool(TRUE)
      [] name = "ADDITIONAL_HANDLERS"       -> List(<<>>)
      [] name = "IGNORE_BROWSER_EXTENSIONS" -> Bool(FALSE)

\* C9: an option read gives the override the settings store holds at that moment, and
\* the documented default when it holds none; a call of process_report follows the
\* options as they are when it runs.
C9_ResolvedFreshly ==
    /\ last.outcome = "read" =>
           last.value = IF settings[last.name].t # "absent" THEN settings[last.name]
                        ELSE DocumentedDefault(last.name)
    /\ (Called /\ ~last.ignored /\ Len(last.steps) > 1) =>
           /\ Entered("email") = EmailOn
           /\ \A i \in DOMAIN effects :
                  effects[i].sink = "log" =>
                      effects[i].level = IF settings["LOG_LEVEL"].t = "absent" THEN "warning"
                                         ELSE settings["LOG_LEVEL"].s
    /\ (Called /\ last.ignored) => IgnoreOn

\* C9 witness: a call ran without the mail sink and logged at the overridden level,
\* after an earlier call had resolved the handlers.
C9_Witness ==
    /\ Called /\ ~EmailOn /\ settings["LOG_LEVEL"] = Str("error")
    /\ additional_handlers.resolved
    /\ \E i \in DOMAIN effects : effects[i].sink = "log" /\ effects[i].level = "error"

====
